---- MODULE Spec2Model ----
(***************************************************************************)
(* CryoTempMonitor: the controller (interface.py, MainWindow) and the      *)
(* acquisition thread (backend.py, Session) as one state machine.          *)
(*                                                                         *)
(* Units.  Time is counted in ticks of 50 ms (TicksPerSec ticks a second). *)
(* Resistance is in ohms.  Temperature is in milli-degrees Celsius.        *)
(* A heating speed is kept as the exact fraction num / den in              *)
(* milli-degrees per minute.                                               *)
(***************************************************************************)
EXTENDS Integers, Sequences, FiniteSets, TLC

(***************************************************************************)
(* Bounds of the model.                                                    *)
(***************************************************************************)
MaxStarts == 2        \* Session objects created (Start presses that get that far)
MaxSamples == 2       \* samples per run under Spec
RateSamples == 51     \* samples per run under SpecRate
MaxDrift == 1         \* times the instrument's answer changes
MaxClockSteps == 1    \* times the system's local clock is set back
MaxOhms == 9000       \* resistances 0..MaxOhms the calibration is tabulated for

(***************************************************************************)
(* Program constants.                                                      *)
(***************************************************************************)
step == 50            \* backend.py:58, the heating-speed window
StopMiuArgs == 1      \* interface.py:124, self.messung.finish(False)
FinishParams == 0     \* backend.py:154, def finish(self)
SleepTicks == 1       \* backend.py:114, time.sleep(0.05)
TicksPerSec == 20     \* backend.py:114, one tick is the 0.05 s of the sleep
SecondsPerDay == 86400  \* datetime.timedelta: 0 <= seconds < 3600*24

Sessions == 1..MaxStarts

GuiThread == 0

VARIABLES
  messung,        \* MainWindow.messung: 0 is None, else the Session's id
  aus,            \* MainWindow.aus: "unset" until assigned, then "True" or "False"
  gui,            \* the GUI thread: idle in the event loop, or in startmiu's prompt
  Button_start,   \* Button_start.isEnabled()
  Button_end,     \* Button_end.isEnabled()
  statusText,     \* the status bar's message
  sess,           \* the Session objects, the thread's position and its plot window
  smuOutput,      \* the instrument's source output: "on" or "off"
  disk,           \* the log file: whether it exists and its lines
  proc,           \* the process: "running", or "aborted" by an unhandled slot exception
  env,            \* the environment: instrument answer, clocks
  budget          \* what is left of the bounds

vars == <<messung, aus, gui, Button_start, Button_end, statusText, sess, smuOutput, disk,
          proc, env, budget>>


(***************************************************************************)
(* Text.  A string the program inspects is a sequence of characters.       *)
(***************************************************************************)
DatSuffix == <<".", "d", "a", "t">>

\* str.endswith
EndsWith(s, suf) ==
  /\ Len(s) >= Len(suf)
  /\ SubSeq(s, Len(s) - Len(suf) + 1, Len(s)) = suf

\* startmiu: if not file.endswith('.dat'): file += '.dat'
WithDat(file) == IF EndsWith(file, DatSuffix) THEN file ELSE file \o DatSuffix

\* What the user may have typed in the file name field.
FileTexts == { <<>>, <<"a">>, <<"a", ".", "d", "a", "t">> }

FileNames == { WithDat(f) : f \in FileTexts \ {<<>>} }

Whitespace == {" ", "\n", "\t", "\r"}

RECURSIVE LStrip(_)
LStrip(s) == IF s # <<>> /\ Head(s) \in Whitespace THEN LStrip(Tail(s)) ELSE s

RECURSIVE RStrip(_)
RStrip(s) ==
  IF s # <<>> /\ s[Len(s)] \in Whitespace THEN RStrip(SubSeq(s, 1, Len(s) - 1)) ELSE s

\* str.strip
Strip(s) == LStrip(RStrip(s))

Digits == <<"0", "1", "2", "3", "4", "5", "6", "7", "8", "9">>

IsDigit(c) == \E i \in 1..Len(Digits) : Digits[i] = c

DigitVal(c) == (CHOOSE i \in 1..Len(Digits) : Digits[i] = c) - 1

RECURSIVE DecimalValue(_, _)
DecimalValue(s, acc) ==
  IF s = <<>> THEN acc ELSE DecimalValue(Tail(s), 10 * acc + DigitVal(Head(s)))

\* float(text) on the answers of Responses: a non-empty run of decimal digits is
\* its value in ohms, anything else raises ValueError.
ParseFloat(text) ==
  IF text # <<>> /\ \A i \in 1..Len(text) : IsDigit(text[i])
  THEN [ok |-> TRUE, val |-> DecimalValue(text, 0)]
  ELSE [ok |-> FALSE, val |-> 0]

\* What rm.list_resources() may return: nothing, or the instrument.
DeviceLists == { <<>>, <<"GPIB0::26::INSTR">> }

\* What the instrument answers at first: 1000 ohms.
FirstResponse == <<"1", "0", "0", "0", "\n">>

\* What the instrument may answer to print(smua.measure.r()).
\* 7582 and 7583 ohms are the two sides of the calibration's domain bound.
Responses ==
  { <<"1", "0", "0", "0", "\n">>,
    <<"1", "1", "0", "0", "\n">>,
    <<"7", "5", "8", "2", "\n">>,
    <<"7", "5", "8", "3", "\n">>,
    <<"9", "0", "0", "0", "\n">>,
    <<"\n">> }

(***************************************************************************)
(* The calibration, in fixed point.                                        *)
(***************************************************************************)
\* (-0.00232 * resistance + 17.59246) * 10^5
Radicand(resistance) == 1759246 - 232 * resistance

RECURSIVE SqrtSearch(_, _, _)
SqrtSearch(n, lo, hi) ==
  IF lo >= hi THEN lo
  ELSE LET mid == (lo + hi + 1) \div 2
       IN IF mid * mid <= n THEN SqrtSearch(n, mid, hi) ELSE SqrtSearch(n, lo, mid - 1)

\* floor(sqrt(n)), 0 <= n < 2^31
ISqrt(n) == SqrtSearch(n, 0, 46340)

\* Variant: the square root never raises.
SqrtNeverRaises(resistance) == FALSE

\* math.sqrt raises ValueError on a negative argument.
SqrtRaises(resistance) == Radicand(resistance) < 0

\* T = -(math.sqrt(radicand) - 3.908) / 0.00116, in milli-degrees; the square
\* root is taken to 4 decimal places.
Temperature(resistance) ==
  ((39080 - ISqrt(Radicand(resistance) * 1000)) * 10000) \div 116

(***************************************************************************)
(* Time.                                                                   *)
(***************************************************************************)
\* timeit.default_timer(): the monotonic clock.
DefaultTimer == env.mono

\* datetime.datetime.now(): the local wall clock, which follows the system's
\* clock settings.
Now == env.mono + env.wallOff

\* timedelta.seconds of the difference delta (in ticks): the seconds field of
\* the normalised timedelta, 0 <= seconds < 86400; days and microseconds are
\* separate fields.
TimedeltaSeconds(delta) == (delta \div TicksPerSec) % SecondsPerDay

\* How far the local clock may be set back at once: 12 s, a clock correction
\* (the end of daylight saving time sets it back an hour).
ClockSetbacks == {12 * TicksPerSec}

\* How long the instrument takes to answer a measurement request
\* (nplc = 5 at 60 Hz or 50 Hz, plus the 0.1 s delay), in ticks.
MeasureTicks == {4, 5}

(***************************************************************************)
(* The instrument commands.                                                *)
(***************************************************************************)
OUTPUT_ON == "smua.source.output = smua.OUTPUT_ON"
OUTPUT_OFF == "smua.source.output = smua.OUTPUT_OFF"
MEASURE_R == "print(smua.measure.r())"

\* Variant: the fixed ranges are left out.
SetupCmdsNoRanges ==
  << "*RST", "smua.reset()", "smua.source.func = smua.OUTPUT_DCAMPS",
     "smua.source.leveli = 1e-3", "smua.measure.autorangev = smua.AUTORANGE_ON",
     "smua.measure.nplc = 5", "smua.measure.delay = 0.1",
     "smua.measure.r(smua.nvbuffer1)" >>

SetupCmds ==
  << "*RST", "smua.reset()", "smua.source.func = smua.OUTPUT_DCAMPS",
     "smua.source.leveli = 1e-3", "smua.measure.autorangev = smua.AUTORANGE_ON",
     "smua.measure.nplc = 5", "smua.measure.delay = 0.1", "smua.measure.rangev = 20",
     "smua.measure.rangei = 1e-3", "smua.measure.r(smua.nvbuffer1)" >>

ResetCmds ==
  << "smua.reset()", "smua.source.func = smua.OUTPUT_DCVOLTS",
     "smua.source.levelv = 0.0", "smua.source.autorangev = smua.AUTORANGE_ON",
     "smua.measure.autorangei = smua.AUTORANGE_ON", OUTPUT_OFF >>

\* self.smu.write of each command of cmds by thread th (GuiThread, or the id of
\* the session whose acquisition thread writes): log is what was written
\* through this Session's handle.
Written(log, th, cmds) == log \o [i \in 1..Len(cmds) |-> [th |-> th, cmd |-> cmds[i]]]

RECURSIVE OutputAfter(_, _)
\* The instrument's output after the commands cmds, from the output out.
OutputAfter(out, cmds) ==
  IF cmds = <<>> THEN out
  ELSE LET c == Head(cmds)
       IN OutputAfter(IF c = OUTPUT_ON THEN "on"
                      ELSE IF c \in {OUTPUT_OFF, "*RST", "smua.reset()"} THEN "off"
                      ELSE out,
                      Tail(cmds))


(***************************************************************************)
(* The objects.                                                            *)
(***************************************************************************)
\* PlotWindow.__init__: shown, with an empty line and the text
\* 'Heating speed: 0 ' (no rate set yet).
NewPlot ==
  [visible |-> TRUE, x_data |-> <<>>, y_data |-> <<>>,
   heating_speed |-> [set |-> FALSE, num |-> 0, den |-> 1]]

NoPlot == [NewPlot EXCEPT !.visible = FALSE]

\* A Session that does not exist yet.
NoSession ==
  [pc |-> "none", alive |-> FALSE, file |-> <<>>, fopen |-> FALSE, data |-> <<>>,
   start |-> 0, t |-> 0, resistance |-> 0, T |-> 0, date |-> 0, exc |-> "none",
   smu |-> <<>>, f |-> NoPlot]

\* A Session whose last reference is gone: __del__ has run and the object is
\* no more.
DeletedSession == [NoSession EXCEPT !.pc = "deleted"]

\* Session.__init__ (with reset_device, by the GUI thread) and prepare_plot, then
\* Thread.start(): the thread is about to execute run().
NewSession(file) ==
  [NoSession EXCEPT !.pc = "run", !.alive = TRUE, !.file = file, !.f = NewPlot,
                    !.smu = Written(<<>>, GuiThread, ResetCmds)]

Created == {s \in Sessions : sess[s].pc # "none"}

\* A thread that has returned from run() or died of an exception.
Terminated(s) == sess[s].pc \in {"done", "raised"}

\* A thread that start() has started and that has not terminated.
Running(s) == sess[s].pc \notin {"none", "done", "raised", "deleted"}

\* A line of the log file.
HeaderLine(kind, time) == [kind |-> kind, time |-> time, t |-> 0, R |-> 0, T |-> 0]

\* f'{t:.3f}' of an elapsed time in ticks: milliseconds.
FormatElapsed(t) == (t * 1000) \div TicksPerSec

\* f'{resistance:.3f}' of a resistance in ohms: milliohms.
FormatResistance(r) == r * 1000

RowLine(time, t, r, temp) ==
  [kind |-> "row", time |-> time, t |-> FormatElapsed(t), R |-> FormatResistance(r),
   T |-> temp]

\* Variant: the line of column names alone.
FileHeaderOneLine(time) == <<HeaderLine("columns", 0)>>

\* Variant: the sample goes to the front.
PrependSample(data, sample) == <<sample>> \o data

\* run: "#measurement started at " + time.ctime() + ..., then the line of
\* column names.
FileHeader(time) == <<HeaderLine("started", time), HeaderLine("columns", 0)>>

\* self.data.append(sample)
AppendSample(data, sample) == Append(data, sample)

\* The file a run of an earlier day left.
OldFile == [exists |-> TRUE, lines |-> <<HeaderLine("old", 0)>>]

\* MainWindow.finished
Finished(boolean, status_text) ==
  /\ Button_start' = boolean
  /\ Button_end' = boolean
  /\ statusText' = status_text

\* Variant: the call goes through whatever is passed.
CallNeverRaises(nargs, nparams) == FALSE

\* A Python call with nargs arguments of a method that takes nparams raises
\* TypeError unless they agree.
CallRaises(nargs, nparams) == nargs # nparams

\* An exception that leaves a Qt slot unhandled: PyQt5 from 5.5 on aborts the
\* process; older versions and a host that installs an excepthook print the
\* traceback and return to the event loop.
SlotExceptionOutcomes == {"running", "aborted"}

(***************************************************************************)
(* The initial state: the main window is shown, no run was started.        *)
(***************************************************************************)
InitWith(cap, starts, setbacks) ==
  /\ messung = 0
  /\ aus = "unset"
  /\ gui = [pc |-> "idle", file |-> <<>>]
  /\ Button_start = TRUE
  /\ Button_end = TRUE
  /\ statusText = ""
  /\ sess = [s \in Sessions |-> NoSession]
  /\ smuOutput = "off"
  /\ disk = [n \in FileNames |-> OldFile]
  /\ proc = "running"
  /\ env \in [devs : DeviceLists, resp : {FirstResponse}, measTicks : MeasureTicks,
              mono : {0}, wallOff : {0}]
  /\ budget = [starts |-> starts, drift |-> MaxDrift, clock |-> setbacks,
               cap |-> cap]

Init == InitWith(MaxSamples, MaxStarts, MaxClockSteps)

\* One long run, enough samples for the heating speed, and a local clock
\* that is left alone.
InitRate == InitWith(RateSamples, 1, 0)

(***************************************************************************)
(* The GUI thread: MainWindow's slots.                                     *)
(***************************************************************************)
\* QMessageBox.question is modal: while it is open the user can answer it and
\* nothing else.
GuiIdle == proc = "running" /\ gui.pc = "idle"

\* Variant: the answer is ignored.
OverwriteOkAlways(response) == TRUE

\* startmiu after the prompt: ok is TRUE only for the answer Yes.
OverwriteOk(response) == response = "Yes"

\* connect_to_device: open_resource(devs[0]) sets self.smu; with no device the
\* IndexError is caught and self.smu stays unset.
Connected(devs) == Len(devs) > 0

\* startmiu from "if ok:" on, for the file name file.
StartTail(file, ok) ==
  /\ gui' = [pc |-> "idle", file |-> <<>>]
  /\ IF ~ok
     THEN \* finished(True, '')
          /\ Finished(TRUE, "")
          /\ UNCHANGED <<aus, messung, sess, smuOutput, proc, budget>>
     ELSE /\ aus' = "True"
          /\ Finished(FALSE, "Running...")
          /\ IF ~Connected(env.devs)
             THEN \* reset_device raises AttributeError out of Session.__init__
                  \* and out of the slot
                  /\ proc' \in SlotExceptionOutcomes
                  /\ UNCHANGED <<messung, sess, smuOutput, budget>>
             ELSE LET s == Cardinality(Created) + 1
                      old == messung
                      \* self.messung = ...: the last reference to the old
                      \* Session goes, unless its thread is still running;
                      \* __del__ resets the device and the object is gone
                      dies == old # 0 /\ Terminated(old)
                  IN /\ smuOutput' = OutputAfter(smuOutput, ResetCmds)
                     /\ sess' = [t \in Sessions |->
                                   IF t = s THEN NewSession(file)
                                   ELSE IF t = old /\ dies THEN DeletedSession
                                   ELSE sess[t]]
                     /\ messung' = s
                     /\ budget' = [budget EXCEPT !.starts = @ - 1]
                     /\ UNCHANGED proc
  /\ UNCHANGED <<disk, env>>

\* startmiu, up to the prompt: finished(False, 'Running...'); with a file name
\* the prompt opens, without one ok = True.
StartMiu ==
  /\ GuiIdle /\ Button_start
  /\ budget.starts > 0
  /\ \E text \in FileTexts :
       IF text # <<>>
       THEN /\ gui' = [pc |-> "prompt", file |-> WithDat(text)]
            /\ Finished(FALSE, "Running...")
            /\ UNCHANGED <<aus, messung, sess, smuOutput, disk, proc, env, budget>>
       ELSE StartTail(text, TRUE)

\* The user answers the prompt 'File exists, overwrite?' with Yes.
PromptYes ==
  /\ proc = "running" /\ gui.pc = "prompt"
  /\ StartTail(gui.file, OverwriteOk("Yes"))

\* The user answers the prompt with No (or closes it).
PromptNo ==
  /\ proc = "running" /\ gui.pc = "prompt"
  /\ StartTail(gui.file, OverwriteOk("No"))

\* stopmiu
StopMiu ==
  /\ GuiIdle
  /\ aus' = "False"
  /\ IF messung = 0 \/ CallRaises(StopMiuArgs, FinishParams)
     THEN \* AttributeError on None, or TypeError: the slot ends here
          /\ proc' \in SlotExceptionOutcomes
          /\ UNCHANGED <<Button_start, Button_end, statusText, sess>>
     ELSE \* Session.finish, then finished(True, 'Manually stopped')
          /\ sess' = [sess EXCEPT ![messung].alive = FALSE]
          /\ Finished(TRUE, "Manually stopped")
          /\ UNCHANGED proc
  /\ UNCHANGED <<messung, gui, smuOutput, disk, env, budget>>

\* The user closes the plot window of session s.
ClosePlot(s) ==
  /\ GuiIdle
  /\ sess[s].f.visible
  /\ sess' = [sess EXCEPT ![s].f.visible = FALSE]
  /\ UNCHANGED <<messung, aus, gui, Button_start, Button_end, statusText, smuOutput,
                 disk, proc, env, budget>>

(***************************************************************************)
(* The acquisition thread of session s: Session.run.                       *)
(***************************************************************************)
GuiVars == <<messung, aus, gui, Button_start, Button_end, statusText>>

\* An exception leaves run(): the thread dies where it is.
Raise(s, kind) == [sess[s] EXCEPT !.pc = "raised", !.exc = kind]

\* self.alive = True; with a file name, open(self.file, 'w') and the two
\* header lines.
RunBegin(s) ==
  /\ proc = "running"
  /\ sess[s].pc = "run"
  /\ LET file == sess[s].file
     IN IF file # <<>>
        THEN /\ disk' = [disk EXCEPT ![file] =
                           [exists |-> TRUE, lines |-> FileHeader(Now)]]
             /\ sess' = [sess EXCEPT ![s] =
                           [@ EXCEPT !.pc = "setup", !.alive = TRUE, !.fopen = TRUE]]
        ELSE /\ sess' = [sess EXCEPT ![s] = [@ EXCEPT !.pc = "setup", !.alive = TRUE]]
             /\ UNCHANGED disk
  /\ UNCHANGED <<GuiVars, smuOutput, proc, env, budget>>

\* self.setup_device()
SetupDevice(s) ==
  /\ proc = "running"
  /\ sess[s].pc = "setup"
  /\ smuOutput' = OutputAfter(smuOutput, SetupCmds)
  /\ sess' = [sess EXCEPT ![s] =
                [@ EXCEPT !.pc = "output_on", !.smu = Written(@, s, SetupCmds)]]
  /\ UNCHANGED <<GuiVars, disk, proc, env, budget>>

\* self.smu.write(OUTPUT_ON); start = timeit.default_timer()
OutputOn(s) ==
  /\ proc = "running"
  /\ sess[s].pc = "output_on"
  /\ smuOutput' = OutputAfter(smuOutput, <<OUTPUT_ON>>)
  /\ sess' = [sess EXCEPT ![s] =
                [@ EXCEPT !.pc = "loop", !.start = DefaultTimer,
                          !.smu = Written(@, s, <<OUTPUT_ON>>)]]
  /\ UNCHANGED <<GuiVars, disk, proc, env, budget>>

\* while self.alive:
LoopTest(s) ==
  /\ proc = "running"
  /\ sess[s].pc = "loop"
  /\ sess' = [sess EXCEPT ![s].pc = IF sess[s].alive THEN "measure" ELSE "close_file"]
  /\ UNCHANGED <<GuiVars, smuOutput, disk, proc, env, budget>>

\* t = timeit.default_timer() - start; the measurement request; smu.read(),
\* which may raise; float(response.strip()), which may raise.
Measure(s) ==
  /\ proc = "running"
  /\ sess[s].pc = "measure"
  /\ Len(sess[s].data) < budget.cap
  /\ \E readFails \in BOOLEAN, r \in Responses :
       /\ r # env.resp => ~readFails /\ budget.drift > 0
       /\ budget' = IF r # env.resp THEN [budget EXCEPT !.drift = @ - 1] ELSE budget
       /\ env' = [env EXCEPT !.resp = r, !.mono = @ + env.measTicks]
       /\ LET t == DefaultTimer - sess[s].start
              parsed == ParseFloat(Strip(r))
              asked == [sess[s] EXCEPT !.t = t, !.smu = Written(@, s, <<MEASURE_R>>)]
          IN sess' = [sess EXCEPT ![s] =
               IF readFails
               THEN [asked EXCEPT !.pc = "raised", !.exc = "VisaIOError"]
               ELSE IF ~parsed.ok
               THEN [asked EXCEPT !.pc = "raised", !.exc = "ValueError: float"]
               ELSE [asked EXCEPT !.pc = "convert", !.resistance = parsed.val]]
  /\ UNCHANGED <<GuiVars, smuOutput, disk, proc>>

\* T = -(math.sqrt(-0.00232 * resistance + 17.59246) - 3.908) / 0.00116
Convert(s) ==
  /\ proc = "running"
  /\ sess[s].pc = "convert"
  /\ sess' = [sess EXCEPT ![s] =
       IF SqrtRaises(sess[s].resistance) THEN Raise(s, "ValueError: math domain error")
       ELSE [@ EXCEPT !.pc = "record", !.T = Temperature(sess[s].resistance)]]
  /\ UNCHANGED <<GuiVars, smuOutput, disk, proc, env, budget>>

\* time.sleep(0.05); date = datetime.datetime.now(); the row, with a file;
\* self.data.append([date, T]).  The local clock may have been set back by d
\* since it was last read.
Record(s) ==
  /\ proc = "running"
  /\ sess[s].pc = "record"
  /\ \E d \in {0} \cup ClockSetbacks :
       /\ d # 0 => budget.clock > 0
       /\ budget' = IF d # 0 THEN [budget EXCEPT !.clock = @ - 1] ELSE budget
       /\ env' = [env EXCEPT !.mono = @ + SleepTicks, !.wallOff = @ - d]
       /\ LET date == env.mono + SleepTicks + env.wallOff - d
              file == sess[s].file
          IN /\ sess' = [sess EXCEPT ![s] =
                  [@ EXCEPT !.pc = "plot", !.date = date,
                            !.data = AppendSample(@, [date |-> date, T |-> sess[s].T])]]
             /\ disk' = IF file # <<>>
                        THEN [disk EXCEPT ![file].lines =
                                Append(@, RowLine(date, sess[s].t, sess[s].resistance,
                                                  sess[s].T))]
                        ELSE disk
  /\ UNCHANGED <<GuiVars, smuOutput, proc>>

\* The heating speed update_plot computes from the plot's i points, as the
\* fraction num / den: (y_data[i-1] - y_data[i-step-1])
\*                     / (x_data[i-1] - x_data[i-step-1]).seconds * 60
HeatingSpeed(x_data, y_data) ==
  LET i == Len(x_data)
  IN [set |-> TRUE,
      num |-> (y_data[i] - y_data[i - step]) * 60,
      den |-> TimedeltaSeconds(x_data[i] - x_data[i - step])]

\* self.update_plot(date, T)
UpdatePlot(s) ==
  /\ proc = "running"
  /\ sess[s].pc = "plot"
  /\ LET f == sess[s].f
         x_data == Append(f.x_data, sess[s].date)
         y_data == Append(f.y_data, sess[s].T)
         drawn == [f EXCEPT !.x_data = x_data, !.y_data = y_data]
     IN sess' = [sess EXCEPT ![s] =
          IF ~f.visible
          THEN \* the window is closed: self.alive = False; return -1
               [@ EXCEPT !.pc = "loop", !.alive = FALSE]
          ELSE IF Len(x_data) > step
          THEN IF HeatingSpeed(x_data, y_data).den = 0
               THEN [Raise(s, "ZeroDivisionError") EXCEPT !.f = drawn]
               ELSE [@ EXCEPT !.pc = "loop",
                              !.f = [drawn EXCEPT !.heating_speed =
                                       HeatingSpeed(x_data, y_data)]]
          ELSE [@ EXCEPT !.pc = "loop", !.f = drawn]]
  /\ UNCHANGED <<GuiVars, smuOutput, disk, proc, env, budget>>

\* print('Finished'); if self.file: f.close()
CloseFile(s) ==
  /\ proc = "running"
  /\ sess[s].pc = "close_file"
  /\ sess' = [sess EXCEPT ![s] = [@ EXCEPT !.pc = "output_off", !.fopen = FALSE]]
  /\ UNCHANGED <<GuiVars, smuOutput, disk, proc, env, budget>>

\* self.smu.write(OUTPUT_OFF)
OutputOff(s) ==
  /\ proc = "running"
  /\ sess[s].pc = "output_off"
  /\ smuOutput' = OutputAfter(smuOutput, <<OUTPUT_OFF>>)
  /\ sess' = [sess EXCEPT ![s] =
                [@ EXCEPT !.pc = "notify", !.smu = Written(@, s, <<OUTPUT_OFF>>)]]
  /\ UNCHANGED <<GuiVars, disk, proc, env, budget>>

\* self.parent.finished(True, 'Closed plotting window')
Notify(s) ==
  /\ proc = "running"
  /\ sess[s].pc = "notify"
  /\ Finished(TRUE, "Closed plotting window")
  /\ sess' = [sess EXCEPT ![s].pc = "done"]
  /\ UNCHANGED <<messung, aus, gui, smuOutput, disk, proc, env, budget>>

Next ==
  \/ StartMiu
  \/ PromptYes
  \/ PromptNo
  \/ StopMiu
  \/ \E s \in Sessions :
       \/ ClosePlot(s)
       \/ RunBegin(s)
       \/ SetupDevice(s)
       \/ OutputOn(s)
       \/ LoopTest(s)
       \/ Measure(s)
       \/ Convert(s)
       \/ Record(s)
       \/ UpdatePlot(s)
       \/ CloseFile(s)
       \/ OutputOff(s)
       \/ Notify(s)

Spec == Init /\ [][Next]_vars

\* One run that nothing but the instrument and the clock disturb.
NextRate ==
  \/ StartMiu
  \/ PromptYes
  \/ \E s \in Sessions :
       \/ RunBegin(s)
       \/ SetupDevice(s)
       \/ OutputOn(s)
       \/ LoopTest(s)
       \/ Measure(s)
       \/ Convert(s)
       \/ Record(s)
       \/ UpdatePlot(s)

SpecRate == InitRate /\ [][NextRate]_vars

\* Session.finish(), called with the arguments it takes on a session whose
\* thread has been started: self.alive = False.  (stopmiu's own call never
\* gets this far; this is the call its caller means to make.)
Finish(s) ==
  /\ proc = "running"
  /\ Running(s)
  /\ sess' = [sess EXCEPT ![s].alive = FALSE]
  /\ UNCHANGED <<GuiVars, smuOutput, disk, proc, env, budget>>

\* The program with a caller of Session.finish().
NextStop == Next \/ \E s \in Sessions : Finish(s)

SpecStop == Init /\ [][NextStop]_vars


(***************************************************************************)
(* The claims.                                                             *)
(***************************************************************************)
\* The thread of s is inside an iteration of the acquisition loop.
MidIteration(s) == sess[s].pc \in {"measure", "convert", "record", "plot"}

\* The thread of s has been started and has not yet written its final
\* OUTPUT_OFF, in the sessions ss.
ActiveIn(ss, s) ==
  ss[s].pc \in {"run", "setup", "output_on", "loop", "measure", "convert", "record",
                "plot", "close_file", "output_off"}

\* Session s has written OUTPUT_ON.
EnabledOutput(s) == \E i \in 1..Len(sess[s].smu) : sess[s].smu[i].cmd = OUTPUT_ON

\* The acquisition thread of s has written OUTPUT_OFF after its last OUTPUT_ON.
DisabledAgain(s) ==
  \E j \in 1..Len(sess[s].smu) :
    /\ sess[s].smu[j] = [th |-> s, cmd |-> OUTPUT_OFF]
    /\ \A i \in j..Len(sess[s].smu) : sess[s].smu[i].cmd # OUTPUT_ON

\* This step wrote commands to the instrument from the GUI thread.
GuiWrote ==
  \E s \in Sessions :
    /\ sess'[s].smu # sess[s].smu
    /\ sess'[s].smu # <<>>
    /\ sess'[s].smu[Len(sess'[s].smu)].th = GuiThread

\* This step is startmiu getting past "if ok:" with ok true.
StartsRunStep == (StartMiu /\ gui'.pc = "idle") \/ PromptYes

\* C1: a Stop pressed while the acquisition loop is inside an iteration calls
\* Session.finish: the process lives on and the session's running flag is down,
\* so that the loop exits at its next test, after at most one more sample.
C1_StopEndsRun ==
  [][(StopMiu /\ messung # 0 /\ MidIteration(messung))
       => (proc' = "running" /\ ~sess'[messung].alive)]_vars

\* C2: in every state where an acquisition thread has terminated after enabling
\* the output, it has written OUTPUT_OFF after its last OUTPUT_ON.
C2_OutputOffOnAbort ==
  \A s \in Sessions : (Terminated(s) /\ EnabledOutput(s)) => DisabledAgain(s)

\* C3: when Start gets to device discovery and no instrument is found, no
\* thread is started and the status bar reports it: the window is still
\* there and shows a message other than that of a started run.
C3_NoDeviceReported ==
  [][(StartsRunStep /\ ~Connected(env.devs))
       => /\ sess' = sess
          /\ proc' = "running"
          /\ statusText' \notin {"", "Running..."}]_vars

C5_FailureReported ==
  \A s \in Sessions :
    (sess[s].pc = "raised" /\ sess[s].exc \in {"VisaIOError", "ValueError: float"})
      => statusText # "Running..."

\* C6: at most one acquisition thread is between its start and its final
\* OUTPUT_OFF, and no step writes to the instrument from the GUI thread while
\* one is.
C6_ExclusiveInstrument ==
  [][/\ Cardinality({s \in Sessions : ActiveIn(sess', s)}) <= 1
     /\ GuiWrote => \A s \in Sessions : ~ActiveIn(sess, s)]_vars

\* C6, its case: Stop was pressed during the second run, whose thread goes on.
C6_Witness ==
  /\ Cardinality(Created) = 2
  /\ messung # 0 /\ MidIteration(messung)
  /\ aus = "False"
  /\ proc = "running"

\* The sessions that log to a file and whose thread has opened it.
Logging == {s \in Sessions : sess[s].file # <<>>
                              /\ sess[s].pc \notin {"none", "run", "deleted"}}

\* The rows of the file of s are its samples, in order.
RowsAreSamples(s, headerLines) ==
  LET lines == disk[sess[s].file].lines
      data == sess[s].data
  IN /\ Len(lines) = headerLines + Len(data)
     /\ \A k \in 1..Len(data) :
          /\ lines[headerLines + k].kind = "row"
          /\ lines[headerLines + k].time = data[k].date
          /\ lines[headerLines + k].T = data[k].T

\* C7 as stated: the file holds one header line, then one row per sample in
\* sample order: 1 + n lines for n samples.
C7_OneHeaderLine == \A s \in Logging : RowsAreSamples(s, 1)

\* C7 amended: the file holds two header lines (the start line and the line
\* of column names), then one row per sample in sample order: 2 + n lines.
C7_TwoHeaderLines ==
  \A s \in Logging :
    /\ RowsAreSamples(s, 2)
    /\ disk[sess[s].file].lines[1].kind = "started"
    /\ disk[sess[s].file].lines[2].kind = "columns"

C7_Witness ==
  \E s \in Logging : Len(sess[s].data) = 2 /\ Len(disk[sess[s].file].lines) = 4

\* The sample sequence of s only grows at its end in this step.
AppendOnly(s) ==
  \/ sess'[s].data = sess[s].data
  \/ /\ Len(sess'[s].data) = Len(sess[s].data) + 1
     /\ SubSeq(sess'[s].data, 1, Len(sess[s].data)) = sess[s].data

\* The elapsed time of s does not decrease in this step.
ElapsedGrows(s) == sess'[s].t >= sess[s].t

\* The elapsed times of the rows of the file of s do not decrease.
ElapsedOrdered(s) ==
  s \in Logging =>
    LET lines == disk[sess[s].file].lines
    IN \A k \in 4..Len(lines) : lines[k - 1].t <= lines[k].t

\* The timestamps of the samples of s do not decrease.
TimestampsOrdered(s) ==
  \A k \in 2..Len(sess[s].data) : sess[s].data[k - 1].date <= sess[s].data[k].date

\* C8 as stated: throughout a run the sample sequence is append-only, and its
\* elapsed times and its timestamps do not decrease.
C8_OrderedSamples ==
  /\ [](\A s \in Sessions : Running(s) => ElapsedOrdered(s) /\ TimestampsOrdered(s))
  /\ [][\A s \in Sessions : Running(s) => AppendOnly(s) /\ ElapsedGrows(s)]_vars

\* C8 amended: throughout a run the sample sequence is append-only and its
\* elapsed times do not decrease; its timestamps do not decrease as long as
\* the local clock has not been set back.
C8_AppendOnly ==
  /\ [](\A s \in Sessions :
         Running(s) => /\ ElapsedOrdered(s)
                       /\ env.wallOff = 0 => TimestampsOrdered(s))
  /\ [][\A s \in Sessions : Running(s) => AppendOnly(s) /\ ElapsedGrows(s)]_vars

C8_Witness ==
  \E s \in Sessions :
    /\ Running(s)
    /\ Len(sess[s].data) = 2
    /\ env.wallOff = 0
    /\ sess[s].data[1].date < sess[s].data[2].date

\* C9: after a point went to the plot, a heating speed has been computed
\* exactly if the plot holds more than step points, it is then
\* (T[i] - T[i-step]) / (elapsed[i] - elapsed[i-step]) * 60 for the newest
\* point i (the elapsed times are those of the rows of the file, taken back
\* from ms to ticks; the two fractions are compared by cross-multiplying), and
\* computing it has not ended the run.
C9_HeatingSpeed ==
  \A s \in Logging :
    /\ sess[s].exc # "ZeroDivisionError"
    /\ sess[s].pc = "loop" =>
         LET f == sess[s].f
             i == Len(f.x_data)
             rows == disk[sess[s].file].lines
             dT == f.y_data[i] - f.y_data[i - step]
             ticks == ((rows[2 + i].t - rows[2 + i - step].t) * TicksPerSec) \div 1000
         IN /\ f.heating_speed.set <=> i > step
            /\ i > step =>
                 f.heating_speed.num * ticks
                   = dT * 60 * TicksPerSec * f.heating_speed.den

\* C10: when the user declines the overwrite prompt no Session is created, no
\* command goes to the instrument, the file is left as it is, and Start and
\* Exit are enabled again.
C10_DeclineStartsNothing ==
  [][PromptNo => /\ sess' = sess
                 /\ messung' = messung
                 /\ smuOutput' = smuOutput
                 /\ disk' = disk
                 /\ Button_start' /\ Button_end']_vars

\* C10, its case: after a finished run, a Start whose prompt was declined.
C10_Witness ==
  /\ messung # 0 /\ sess[messung].pc = "done" /\ sess[messung].file # <<>>
  /\ gui.pc = "idle"
  /\ statusText = ""
  /\ Button_start
  /\ disk[sess[messung].file].lines # OldFile.lines

\* The bound of C11: -0.00232 * R + 17.59246 >= 0, times 10^5.
InDomain(R) == 232 * R <= 1759246

\* T (milli-degrees) is -(sqrt(-0.00232 * R + 17.59246) - 3.908) / 0.00116 to
\* the tolerance of the fixed point: y = 3.908 - 0.00116 * T, to 4 decimal
\* places, is the square root of the radicand: y^2 <= radicand < (y + 0.0001)^2.
ClosedForm(T, R) ==
  LET y == (390800000 - 116 * T) \div 10000
      radicand == (1759246 - 232 * R) * 1000
  IN y >= 0 /\ y * y <= radicand /\ radicand < (y + 1) * (y + 1)

\* The conversion over every resistance 0..MaxOhms.
ConversionTable ==
  \A R \in 0..MaxOhms :
    IF InDomain(R) THEN ~SqrtRaises(R) /\ ClosedForm(Temperature(R), R)
    ELSE SqrtRaises(R)

\* The measurement requests the thread of s has written.
Requests(s) == Len(SelectSeq(sess[s].smu, LAMBDA w : w.cmd = MEASURE_R))

\* The rows of the file of s (none without a file).
Rows(s) ==
  IF sess[s].file = <<>> THEN <<>>
  ELSE SelectSeq(disk[sess[s].file].lines, LAMBDA l : l.kind = "row")

\* C11: for every resistance R within the bound -0.00232 * R + 17.59246 >= 0
\* the conversion yields the closed form and the iteration goes on to record
\* the sample; for every R beyond it the conversion raises the domain error
\* and the iteration records nothing: no row, no entry in the sample sequence,
\* no point in the plot, then or later.
C11_Conversion ==
  /\ [](/\ ConversionTable
        /\ \A s \in Sessions :
             sess[s].exc = "ValueError: math domain error"
               => /\ sess[s].pc = "raised"
                  /\ Len(sess[s].data) = Requests(s) - 1
                  /\ sess[s].file # <<>> => Len(Rows(s)) = Len(sess[s].data)
                  /\ Len(sess[s].f.x_data) = Len(sess[s].data))
  /\ [][\A s \in Sessions :
          Convert(s) =>
            IF InDomain(sess[s].resistance)
            THEN /\ sess'[s].pc = "record" /\ sess'[s].exc = "none"
                 /\ ClosedForm(sess'[s].T, sess[s].resistance)
            ELSE /\ sess'[s].pc = "raised"
                 /\ sess'[s].exc = "ValueError: math domain error"
                 /\ sess'[s].data = sess[s].data
                 /\ sess'[s].f = sess[s].f
                 /\ disk' = disk]_vars

\* C11, its case: a run to a file recorded a sample within the bound and
\* ended on the domain error at 7583 ohms, the first ohm beyond it.
C11_Witness ==
  \E s \in Sessions :
    /\ sess[s].exc = "ValueError: math domain error"
    /\ sess[s].resistance = 7583
    /\ sess[s].file # <<>>
    /\ Len(sess[s].data) = 1
    /\ ClosedForm(sess[s].data[1].T, 1000)
    /\ Requests(s) = 2

\* The commands of cmds were written through the handle of s, one after the
\* other, after s enabled the output.
WrittenAfterOutputOn(s, cmds) ==
  LET smu == sess[s].smu
  IN \E j \in 1..(Len(smu) - Len(cmds) + 1) :
       /\ \A k \in 1..Len(cmds) : smu[j + k - 1].cmd = cmds[k]
       /\ \E i \in 1..(j - 1) : smu[i].cmd = OUTPUT_ON

\* C12: when the acquisition thread has left its loop and ended the run, the
\* instrument has been given the reset sequence of reset_device (zero-volt DC
\* voltage source, autoranging on, output off) after the run's OUTPUT_ON.
C12_TeardownResets ==
  \A s \in Sessions : sess[s].pc = "done" => WrittenAfterOutputOn(s, ResetCmds)

\* The commands the acquisition thread of s has written, in order.
ThreadCmds(s) ==
  LET own == SelectSeq(sess[s].smu, LAMBDA w : w.th = s)
  IN [i \in 1..Len(own) |-> own[i].cmd]

\* The configuration sequence of C13: reset, DC current source mode, 1 mA
\* bias, voltage autoranging, NPLC, measurement delay, fixed ranges,
\* resistance measurement function.
ConfigOrder ==
  << "*RST", "smua.reset()",
     "smua.source.func = smua.OUTPUT_DCAMPS",
     "smua.source.leveli = 1e-3",
     "smua.measure.autorangev = smua.AUTORANGE_ON",
     "smua.measure.nplc = 5",
     "smua.measure.delay = 0.1",
     "smua.measure.rangev = 20", "smua.measure.rangei = 1e-3",
     "smua.measure.r(smua.nvbuffer1)" >>

\* The commands that leave the output off.
OffCmds == {OUTPUT_OFF, "*RST", "smua.reset()"}

\* C13: in every run the thread enables the output once, right after the
\* whole configuration sequence in its order; every measurement request comes
\* after the OUTPUT_ON with no command that disables the output in between;
\* and the instrument's output is on whenever a request is issued.
C13_CommandOrder ==
  /\ [](\A s \in Sessions :
         LET cmds == ThreadCmds(s)
         IN \A i \in 1..Len(cmds) :
              /\ cmds[i] = OUTPUT_ON
                   => i = Len(ConfigOrder) + 1 /\ SubSeq(cmds, 1, i - 1) = ConfigOrder
              /\ cmds[i] = MEASURE_R
                   => \E j \in 1..(i - 1) :
                        /\ cmds[j] = OUTPUT_ON
                        /\ \A k \in j..i : cmds[k] \notin OffCmds)
  /\ [][\A s \in Sessions : Measure(s) => smuOutput = "on"]_vars

\* C13, its case: a run that measured twice and has disabled the output.
C13_Witness ==
  \E s \in Sessions :
    /\ sess[s].pc = "done"
    /\ Requests(s) = 2
    /\ ThreadCmds(s)[Len(ThreadCmds(s))] = OUTPUT_OFF

\* C14: a stop request is never lost.  Once the running flag of a session
\* whose thread has been started is down (Session.finish() has lowered it, at
\* any point of run(), its first statement included), no later step raises it
\* again, so that the next test of the loop ends the run.
C14_StopNotLost ==
  [][\A s \in Sessions :
       (Running(s) /\ ~sess[s].alive) => ~sess'[s].alive]_vars

\* C15: every Start leaves the controller usable again.  When no slot is
\* executing and no acquisition thread is running (nothing is left that
\* could call MainWindow.finished), Start and Exit are enabled.
C15_StartReenabled ==
  (proc = "running" /\ gui.pc = "idle" /\ \A s \in Sessions : ~Running(s))
    => (Button_start /\ Button_end)

\* The number of samples of s the plot does not hold.
PlotLag(s) == Len(sess[s].data) - Len(sess[s].f.x_data)

\* The points of the plot of s are the first samples of s, in order.
PlotIsPrefix(s) ==
  LET f == sess[s].f
  IN /\ Len(f.y_data) = Len(f.x_data)
     /\ Len(f.x_data) <= Len(sess[s].data)
     /\ \A k \in 1..Len(f.x_data) :
          /\ f.x_data[k] = sess[s].data[k].date
          /\ f.y_data[k] = sess[s].data[k].T

\* The thread of s is at the loop's test or past the loop.
AtBoundary(s) ==
  sess[s].pc \in {"loop", "close_file", "output_off", "notify", "done", "raised"}

\* C16: the points of the plot are a prefix of the sample sequence and lag
\* it by at most one sample; at an iteration boundary the lag is one only
\* when update_plot found the window closed in the last iteration (the flag
\* is down), and that sample is in the sequence and in the file.
C16_PlotLagsByOne ==
  \A s \in Sessions :
    /\ PlotIsPrefix(s)
    /\ PlotLag(s) \in {0, 1}
    /\ (AtBoundary(s) /\ PlotLag(s) = 1)
         => /\ ~sess[s].f.visible
            /\ ~sess[s].alive
            /\ sess[s].file # <<>> => Len(Rows(s)) = Len(sess[s].data)

\* C16, its case: the window was closed during the second iteration; two
\* samples are recorded, one is plotted, and the loop is at its boundary.
C16_Witness ==
  \E s \in Sessions :
    /\ sess[s].pc = "loop"
    /\ sess[s].file # <<>>
    /\ Len(sess[s].data) = 2
    /\ Len(sess[s].f.x_data) = 1
    /\ Len(Rows(s)) = 2

\* C17: a Stop pressed while MainWindow.messung is still None is a harmless
\* no-op: no error is raised (the slot runs to its end, the process lives on
\* and the status bar shows the slot's message), no command goes to the
\* instrument, and nothing else of the controller changes.
C17_StopWithoutRun ==
  [][(StopMiu /\ messung = 0)
       => /\ proc' = "running"
          /\ statusText' = "Manually stopped"
          /\ sess' = sess /\ smuOutput' = smuOutput
          /\ messung' = messung /\ gui' = gui
          /\ Button_start' = Button_start /\ Button_end' = Button_end]_vars

====
